---- MODULE Spec2Model ----
(***************************************************************************)
(* The generic store-action factory (the TypeScript that follows the       *)
(* changelog text in CHANGELOG.md) instantiated for the student store      *)
(* (entityName = 'student'), together with the REST backend it talks to.   *)
(*                                                                         *)
(* Every generated action is an async function with one await: the code    *)
(* up to the service call runs atomically (XStart), the code after the     *)
(* await runs atomically when the promise settles (XSettle).  Several      *)
(* calls may be in flight at once; they settle in any order.  The backend  *)
(* handles a request when it is sent; the response travels back later.     *)
(***************************************************************************)
EXTENDS Integers, Sequences, FiniteSets, Bags, TLC

\* ---------------------------------------------------------------- bounds
MaxNew == 2       \* records the backend creates in one run
MaxIssued == 3    \* service calls issued in one run
MaxRequests == 2  \* HTTP requests made in one run
MaxRefreshes == 2 \* refresh calls the token manager makes in one run
MaxSessions == 3  \* sessions useSession() hands a mounted hook in one run
MaxStudents == 5  \* students the store holds for the member picker
Delay == 3        \* the delay of useDebounce, in ticks
MaxInputs == 3    \* changes of a debounced input
MaxStale == 1     \* earlier runs of detectPageReady still racing beside the latest

Semesters == {1, 2}            \* semester ids; 0 stands for undefined
Vals == {0, 1}                 \* the one mutable field of a record
NoSemester == 0

VARIABLES
  store,     \* the zustand state object of the student store
  calls,     \* bag of service calls in flight, each with the response on its way
  db,        \* the backend's records, in the order findAll returns them
  nextId,    \* the next identifier the backend hands out
  issued,    \* how many service calls have been issued so far
  last,      \* the most recent step of a store action and what it returned
  requests,  \* the HTTP requests made through the client, in the order made
  tokens,    \* the credential pair the token manager holds
  refresh,   \* the token manager's refresh calls
  session,   \* where the browser is, and how often it was sent to the login page
  guard,     \* a mounted useAuthGuard hook: next-auth session, options, state
  nav,       \* the navigation loader
  invite,    \* the InviteTeamMembers component
  debounce,  \* a mounted useDebounce hook and the clock
  route      \* a pathname and a user put to the route guard

storeVars == <<store, calls, db, nextId, issued, last>>

httpVars == <<requests, tokens, refresh, session>>

uiVars == <<guard, nav, invite, debounce, route>>

vars == <<store, calls, db, nextId, issued, last,
          requests, tokens, refresh, session,
          guard, nav, invite, debounce, route>>

\* ---------------------------------------------------------------- values
Student(i, v) == [id |-> i, v |-> v]

\* Strings are sequences of tokens: characters for names and search text,
\* words for server messages.
Includes(s, t) ==
  \E k \in 0..(Len(s) - Len(t)) : \A j \in 1..Len(t) : s[k + j] = t[j]

toLowerCase(s) ==
  [k \in 1..Len(s) |->
     CASE s[k] = "O" -> "o"
       [] s[k] = "N" -> "n"
       [] s[k] = "F" -> "f"
       [] OTHER -> s[k]]

\* The searchable field of a record, derived from its mutable field.
searchFields(item) == IF item.v = 1 THEN <<"O", "n">> ELSE <<"O", "F", "F">>

SearchTexts == {<<>>, <<"N">>}

createSearchFilter(seq, searchText) ==
  IF searchText = <<>> THEN seq
  ELSE LET lowercaseSearch == toLowerCase(searchText)
           Test(item) == Includes(toLowerCase(searchFields(item)), lowercaseSearch)
       IN SelectSeq(seq, Test)

\* ---------------------------------------------------------------- errors
NoError == [message |-> <<>>, statusCode |-> 0]      \* lastError: null

createErrorState(error) ==
  [message |-> error.message, statusCode |-> error.statusCode]

MsgNotYet == <<"Semester", "is", "NotYet">>
MsgEnd == <<"Semester", "is", "End">>
MsgEnrollment == <<"Only", "semesters", "allow", "student", "enrollment">>
MsgConflict == <<"Conflict">>
MsgFailed == <<"Failed">>

\* ---------------------------------------------------------------- responses
\* ApiResponse as the service resolves it; a rejected promise is thrown = TRUE.
Ok(data) ==
  [thrown |-> FALSE, success |-> TRUE, hasData |-> TRUE, data |-> data,
   statusCode |-> 200, error |-> <<>>]
OkVoid ==
  [thrown |-> FALSE, success |-> TRUE, hasData |-> FALSE, data |-> <<>>,
   statusCode |-> 200, error |-> <<>>]
Err(code, msg) ==
  [thrown |-> FALSE, success |-> FALSE, hasData |-> FALSE, data |-> <<>>,
   statusCode |-> code, error |-> msg]
Thrown ==
  [thrown |-> TRUE, success |-> FALSE, hasData |-> FALSE, data |-> <<>>,
   statusCode |-> 0, error |-> <<>>]

handleApiResponse(response) ==
  IF response.success
  THEN [success |-> TRUE, hasData |-> response.hasData, data |-> response.data,
        hasError |-> FALSE, error |-> NoError]
  ELSE [success |-> FALSE, hasData |-> FALSE, data |-> <<>>,
        hasError |-> TRUE,
        error |-> [message |-> response.error, statusCode |-> response.statusCode]]

handleApiError(defaultMessage) == [message |-> defaultMessage, statusCode |-> 500]

\* ---------------------------------------------------------------- store
\* set(partial): zustand merges the partial object into the state.
Set(s, partial) ==
  [k \in DOMAIN s |-> IF k \in DOMAIN partial THEN partial[k] ELSE s[k]]

InitialState(hasFilter) ==
  [students |-> <<>>, filteredStudents |-> <<>>,
   loading |-> FALSE, creating |-> FALSE, updating |-> FALSE,
   deleting |-> FALSE, togglingStatus |-> FALSE,
   creatingMany |-> FALSE, creatingManyStudents |-> FALSE,
   lastError |-> NoError, searchText |-> <<>>,
   lastSemesterId |-> NoSemester,
   hasFilterStudents |-> hasFilter]   \* typeof state.filterStudents === 'function'

\* The student store's filterStudents(): recompute the filtered view.
filterStudents(s) ==
  Set(s, [filteredStudents |-> createSearchFilter(s.students, s.searchText)])

\* const filterFunction = currentState['filterStudents'];
\* if (typeof filterFunction === 'function') filterFunction();
InvokeFilter(s) == IF s.hasFilterStudents THEN filterStudents(s) ELSE s

handleActionError(s, defaultMessage) ==
  Set(s, [lastError |-> createErrorState(handleApiError(defaultMessage))])

\* (a slip: the notification is shown but the error state is not stored)
handleResultError_NotStored(s, error) == s

handleResultError(s, error) ==
  Set(s, [lastError |-> createErrorState(error)])

\* (a slip: only the collection is replaced, the filtered view is left to the filter)
handleFetchSuccess_CollectionOnly(s, data) ==
  InvokeFilter(Set(s, [students |-> data]))

handleFetchSuccess(s, data) ==
  InvokeFilter(Set(s, [students |-> data, filteredStudents |-> data]))

\* (a slip: the new record replaces the collection instead of joining it)
handleCreateSuccess_Replaced(s, data) ==
  InvokeFilter(Set(s, [students |-> <<data>>]))

handleCreateSuccess(s, data) ==
  InvokeFilter(Set(s, [students |-> <<data>> \o s.students]))

\* (a slip: the new records are added at the end)
handleBatchCreateSuccess_Appended(s, data) ==
  InvokeFilter(Set(s, [students |-> s.students \o data]))

handleBatchCreateSuccess(s, data) ==
  InvokeFilter(Set(s, [students |-> data \o s.students]))

\* (a slip: the updated record is moved to the front)
handleUpdateSuccess_MovedToFront(s, data, id) ==
  LET Others(item) == item.id # id
  IN InvokeFilter(Set(s, [students |-> <<data>> \o SelectSeq(s.students, Others)]))

handleUpdateSuccess(s, data, id) ==
  InvokeFilter(Set(s, [students |->
     [k \in 1..Len(s.students) |->
        IF s.students[k].id = id THEN data ELSE s.students[k]]]))

handleDeleteSuccess(s, id) ==
  LET Keep(item) == item.id # id
  IN InvokeFilter(Set(s, [students |-> SelectSeq(s.students, Keep)]))

\* What the code after the await does: the new state, the value the action
\* returns, and how many error notifications it shows.
Outcome(s, path, ret, notes) ==
  [state |-> s, path |-> path, ret |-> ret, notes |-> notes]

\* (a slip: the failure is handled without telling the user)
Notified_Silent(o) == o

\* showNotification.error(title, message), called once by handleCreateError,
\* handleActionError and handleResultError.
Notified(o) == [o EXCEPT !.notes = @ + 1]

\* (a slip: the flag is cleared on the success path only)
Finally_SuccessOnly(o, partial) ==
  IF o.path = "success" THEN [o EXCEPT !.state = Set(@, partial)] ELSE o

Finally(o, partial) == [o EXCEPT !.state = Set(@, partial)]

createSettled(s, response) ==
  LET result == handleApiResponse(response)
      body ==
        IF response.thrown
        THEN Notified(Outcome(handleActionError(s, MsgFailed), "thrown", "false", 0))
        ELSE IF result.success /\ result.hasData
        THEN Outcome(handleCreateSuccess(s, result.data[1]), "success", "true", 0)
        ELSE IF result.hasError
        THEN Notified(Outcome(Set(s, [lastError |-> createErrorState(result.error)]),
                              "error", "false", 0))
        ELSE Outcome(s, "none", "false", 0)
  IN Finally(body, [creating |-> FALSE])

batchCreateSettled(s, response) ==
  LET result == handleApiResponse(response)
      body ==
        IF response.thrown
        THEN Notified(Outcome(handleActionError(s, MsgFailed), "thrown", "false", 0))
        ELSE IF result.success /\ result.hasData
        THEN Outcome(handleBatchCreateSuccess(s, result.data), "success", "true", 0)
        ELSE IF result.hasError
        THEN Notified(Outcome(Set(s, [lastError |-> createErrorState(result.error)]),
                              "error", "false", 0))
        ELSE Outcome(s, "none", "false", 0)
  IN Finally(body, [creatingMany |-> FALSE, creatingManyStudents |-> FALSE])

fetchSettled(s, response) ==
  LET result == handleApiResponse(response)
      body ==
        IF response.thrown
        THEN Notified(Outcome(handleActionError(s, MsgFailed), "thrown", "void", 0))
        ELSE IF result.success /\ result.hasData
        THEN Outcome(handleFetchSuccess(s, result.data), "success", "void", 0)
        ELSE IF result.hasError
        THEN Notified(Outcome(handleResultError(s, result.error), "error", "void", 0))
        ELSE Outcome(s, "none", "void", 0)
  IN Finally(body, [loading |-> FALSE])

updateSettled(s, id, response) ==
  LET result == handleApiResponse(response)
      body ==
        IF response.thrown
        THEN Notified(Outcome(handleActionError(s, MsgFailed), "thrown", "false", 0))
        ELSE IF result.success /\ result.hasData
        THEN Outcome(handleUpdateSuccess(s, result.data[1], id), "success", "true", 0)
        ELSE IF result.hasError
        THEN Notified(Outcome(handleResultError(s, result.error), "error", "false", 0))
        ELSE Outcome(s, "none", "false", 0)
  IN Finally(body, [updating |-> FALSE])

toggleStatusSettled(s, id, response) ==
  LET result == handleApiResponse(response)
      body ==
        IF response.thrown
        THEN Notified(Outcome(handleActionError(s, MsgFailed), "thrown", "false", 0))
        ELSE IF result.success /\ result.hasData
        THEN Outcome(handleUpdateSuccess(s, result.data[1], id), "success", "true", 0)
        ELSE IF result.hasError
        THEN Notified(Outcome(handleResultError(s, result.error), "error", "false", 0))
        ELSE Outcome(s, "none", "false", 0)
  IN Finally(body, [togglingStatus |-> FALSE])

deleteSettled(s, id, response) ==
  LET result == handleApiResponse(response)
      body ==
        IF response.thrown
        THEN Notified(Outcome(handleActionError(s, MsgFailed), "thrown", "false", 0))
        ELSE IF result.success
        THEN Outcome(handleDeleteSuccess(s, id), "success", "true", 0)
        ELSE IF result.hasError
        THEN Notified(Outcome(handleResultError(s, result.error), "error", "false", 0))
        ELSE Outcome(s, "none", "false", 0)
  IN Finally(body, [deleting |-> FALSE])

\* (a slip: only the End status is recognised)
IsEnrollmentConflict_EndOnly(error) ==
  error.statusCode = 409 /\ Includes(error.message, <<"End">>)

\* The 409 responses fetch-by-semester shows as empty data.
IsEnrollmentConflict(error) ==
  /\ error.statusCode = 409
  /\ error.message # <<>>
  /\ \/ Includes(error.message, <<"NotYet">>)
     \/ Includes(error.message, <<"End">>)
     \/ Includes(error.message, <<"semesters", "allow", "student", "enrollment">>)

\* (a slip: the semester is remembered whatever the call came to)
fetchBySemesterSettled_AlwaysRemembered(s, semesterId, response) ==
  LET result == handleApiResponse(response)
      body ==
        IF response.thrown
        THEN Notified(Outcome(handleActionError(s, MsgFailed), "thrown", "void", 0))
        ELSE IF result.success /\ result.hasData
        THEN Outcome(handleFetchSuccess(s, result.data), "success", "void", 0)
        ELSE IF result.hasError
        THEN IF IsEnrollmentConflict(result.error)
             THEN Outcome(handleFetchSuccess(s, <<>>), "empty", "void", 0)
             ELSE Notified(Outcome(handleResultError(s, result.error), "error", "void", 0))
        ELSE Outcome(s, "none", "void", 0)
  IN Finally(body, [loading |-> FALSE, lastSemesterId |-> semesterId])

fetchBySemesterSettled(s, semesterId, response) ==
  LET result == handleApiResponse(response)
      body ==
        IF response.thrown
        THEN Notified(Outcome(handleActionError(s, MsgFailed), "thrown", "void", 0))
        ELSE IF result.success /\ result.hasData
        THEN Outcome(Set(handleFetchSuccess(s, result.data),
                         [lastSemesterId |-> semesterId]), "success", "void", 0)
        ELSE IF result.hasError
        THEN IF IsEnrollmentConflict(result.error)
             THEN Outcome(Set(handleFetchSuccess(s, <<>>),
                              [lastSemesterId |-> semesterId]), "empty", "void", 0)
             ELSE Notified(Outcome(handleResultError(s, result.error), "error", "void", 0))
        ELSE Outcome(s, "none", "void", 0)
  IN Finally(body, [loading |-> FALSE])

createReset ==
  [students |-> <<>>, filteredStudents |-> <<>>,
   loading |-> FALSE, creating |-> FALSE, updating |-> FALSE,
   deleting |-> FALSE, togglingStatus |-> FALSE,
   lastError |-> NoError, searchText |-> <<>>,
   creatingMany |-> FALSE, creatingManyStudents |-> FALSE]

\* ---------------------------------------------------------------- backend
\* What a service call can come to: the response the promise settles with and
\* the backend's records afterwards.  A failed call changes nothing there.
Reply(response, newDb, newNextId) ==
  [response |-> response, db |-> newDb, nextId |-> newNextId]

\* The records the backend holds when the page loads.
InitialDb == <<Student(1, 1), Student(2, 0)>>

MaxId == Len(InitialDb) + MaxNew

\* The field a creation payload carries; updates and toggles may set either.
CreatePayloads == {0}

\* A call the backend refuses or the network drops leaves the records as they
\* are; which failure the promise settles with is seen when it settles.
Refused == Err(0, <<>>)

Failures == {Reply(Refused, db, nextId)}

FailureResponses(kind) ==
  {Err(409, MsgConflict), Thrown} \cup
  IF kind = "fetchBySemester"
  THEN {Err(409, MsgNotYet), Err(409, MsgEnd), Err(409, MsgEnrollment),
        Err(500, MsgNotYet)}
  ELSE {}

Arrives(c) ==
  IF c.response = Refused THEN FailureResponses(c.kind) ELSE {c.response}

DbIds == {db[k].id : k \in 1..Len(db)}

NewStudents(k, v) == [j \in 1..k |-> Student(nextId + j - 1, v)]

serviceCreate(v) ==
  Failures \cup
  IF nextId <= MaxId
  THEN {Reply(Ok(NewStudents(1, v)), db \o NewStudents(1, v), nextId + 1)}
  ELSE {}

serviceCreateMany(k, v) ==
  Failures \cup
  IF nextId + k - 1 <= MaxId
  THEN {Reply(Ok(NewStudents(k, v)), db \o NewStudents(k, v), nextId + k)}
  ELSE {}

serviceUpdate(id, v) ==
  Failures \cup
  IF id \in DbIds
  THEN {Reply(Ok(<<Student(id, v)>>),
              [k \in 1..Len(db) |-> IF db[k].id = id THEN Student(id, v) ELSE db[k]],
              nextId)}
  ELSE {}

serviceDelete(id) ==
  LET Keep(item) == item.id # id
  IN Failures \cup
     IF id \in DbIds THEN {Reply(OkVoid, SelectSeq(db, Keep), nextId)} ELSE {}

serviceFindAll == Failures \cup {Reply(Ok(db), db, nextId)}

\* Students are enrolled in the two semesters alternately.
InSemester(item, semesterId) == (item.id % 2) + 1 = semesterId

serviceFindAllBySemester(semesterId) ==
  LET Enrolled(item) == InSemester(item, semesterId)
  IN Failures \cup
     {Reply(Ok(SelectSeq(db, Enrolled)), db, nextId)}

\* ---------------------------------------------------------------- steps
\* What the latest step was: the action, its argument, the path its code took,
\* the value it returned, the error notifications it showed and, for a call
\* that settled, the error of the response and whether it ran alone.
Event(op, arg, force, path, ret, notes, error, alone) ==
  [op |-> op, arg |-> arg, force |-> force, path |-> path, ret |-> ret,
   notes |-> notes, error |-> error, alone |-> alone]

NoEvent == Event("none", 0, FALSE, "none", "void", 0, NoError, FALSE)

\* Calls already in flight now overlap with the one being issued.
Overlapped(B) ==
  LET S == {[c EXCEPT !.alone = FALSE] : c \in BagToSet(B)}
  IN [m \in S |-> CopiesIn(m, B) + CopiesIn([m EXCEPT !.alone = TRUE], B)]

\* The synchronous part of an action, up to its await.
Issue(kind, arg, force, reply, partial) ==
  /\ issued < MaxIssued
  /\ issued' = issued + 1
  /\ store' = Set(store, partial)
  /\ calls' = Overlapped(calls) (+)
              SetToBag({[kind |-> kind, arg |-> arg, force |-> force,
                         response |-> reply.response,
                         alone |-> calls = EmptyBag]})
  /\ db' = reply.db
  /\ nextId' = reply.nextId
  /\ last' = IF kind = "fetchBySemester"
             THEN Event(kind, arg, force, "start", "void", 0, NoError, FALSE)
             ELSE NoEvent
  /\ UNCHANGED <<httpVars, uiVars>>

\* The rest of an action, run when its promise settles.
Settle(c, response, outcome) ==
  /\ store' = outcome.state
  /\ calls' = calls (-) SetToBag({c})
  /\ last' = Event(c.kind, c.arg, c.force, outcome.path, outcome.ret,
                   outcome.notes, handleApiResponse(response).error, c.alone)
  /\ UNCHANGED <<db, nextId, issued>>
  /\ UNCHANGED <<httpVars, uiVars>>

InFlight(kind) == {c \in BagToSet(calls) : c.kind = kind}

\* The UI offers update, toggle and delete on the rows it shows.
KnownIds == {store.students[k].id : k \in 1..Len(store.students)}

FetchStart ==
  \E reply \in serviceFindAll :
    Issue("fetch", 0, FALSE, reply, [loading |-> TRUE, lastError |-> NoError])

FetchSettle ==
  \E c \in InFlight("fetch") : \E response \in Arrives(c) :
    Settle(c, response, fetchSettled(store, response))

\* (a slip: the force flag is not looked at)
IsCached_ForceIgnored(s, semesterId, force) == s.lastSemesterId = semesterId

\* (a slip: the cached semester is never recognised)
IsCached_Never(s, semesterId, force) == FALSE

\* if (!force && currentState.students && currentState.lastSemesterId === semesterId) return;
\* state.students is an array in the student store, and every array is truthy.
IsCached(s, semesterId, force) == ~force /\ s.lastSemesterId = semesterId

FetchBySemesterSkip ==
  \E semesterId \in Semesters, force \in BOOLEAN :
    /\ IsCached(store, semesterId, force)
    /\ last' = Event("fetchBySemester", semesterId, force, "skip", "void", 0,
                     NoError, FALSE)
    /\ UNCHANGED <<store, calls, db, nextId, issued>>
    /\ UNCHANGED <<httpVars, uiVars>>

FetchBySemesterStartWith(semesterIds, forces) ==
  \E semesterId \in semesterIds, force \in forces :
    /\ ~IsCached(store, semesterId, force)
    /\ \E reply \in serviceFindAllBySemester(semesterId) :
         Issue("fetchBySemester", semesterId, force, reply,
               [loading |-> TRUE, lastError |-> NoError])

FetchBySemesterStart == FetchBySemesterStartWith(Semesters, BOOLEAN)

FetchBySemesterSettle ==
  \E c \in InFlight("fetchBySemester") : \E response \in Arrives(c) :
    Settle(c, response, fetchBySemesterSettled(store, c.arg, response))

CreateStart ==
  \E v \in CreatePayloads : \E reply \in serviceCreate(v) :
    Issue("create", 0, FALSE, reply, [creating |-> TRUE, lastError |-> NoError])

CreateSettle ==
  \E c \in InFlight("create") : \E response \in Arrives(c) :
    Settle(c, response, createSettled(store, response))

CreateManyStart ==
  \E k \in 1..MaxNew, v \in CreatePayloads : \E reply \in serviceCreateMany(k, v) :
    Issue("createMany", 0, FALSE, reply,
          [creatingMany |-> TRUE, creatingManyStudents |-> TRUE,
           lastError |-> NoError])

CreateManySettle ==
  \E c \in InFlight("createMany") : \E response \in Arrives(c) :
    Settle(c, response, batchCreateSettled(store, response))

UpdateStartWith(payloads) ==
  \E id \in KnownIds, v \in payloads : \E reply \in serviceUpdate(id, v) :
    Issue("update", id, FALSE, reply, [updating |-> TRUE, lastError |-> NoError])

UpdateStart == UpdateStartWith(Vals)

UpdateSettle ==
  \E c \in InFlight("update") : \E response \in Arrives(c) :
    Settle(c, response, updateSettled(store, c.arg, response))

ToggleStatusStartWith(payloads) ==
  \E id \in KnownIds, v \in payloads : \E reply \in serviceUpdate(id, v) :
    Issue("toggleStatus", id, FALSE, reply,
          [togglingStatus |-> TRUE, lastError |-> NoError])

ToggleStatusStart == ToggleStatusStartWith(Vals)

ToggleStatusSettle ==
  \E c \in InFlight("toggleStatus") : \E response \in Arrives(c) :
    Settle(c, response, toggleStatusSettled(store, c.arg, response))

DeleteStart ==
  \E id \in KnownIds : \E reply \in serviceDelete(id) :
    Issue("delete", id, FALSE, reply, [deleting |-> TRUE, lastError |-> NoError])

DeleteSettle ==
  \E c \in InFlight("delete") : \E response \in Arrives(c) :
    Settle(c, response, deleteSettled(store, c.arg, response))

Sync(newState) ==
  /\ store' = newState
  /\ last' = NoEvent
  /\ UNCHANGED <<calls, db, nextId, issued>>
  /\ UNCHANGED <<httpVars, uiVars>>

Reset == Sync(Set(store, createReset))

SetSearchText ==
  \E text \in SearchTexts :
    Sync(InvokeFilter(Set(store, [searchText |-> text])))

\* ---------------------------------------------------------------- http
\* The HTTP client's interceptors (interceptors.ts) with the token manager
\* they call and the server that answers.  A request is followed from the
\* request interceptor to the promise the caller gets settled.

\* URLs are sequences of path segments.
AuthEndpoints ==
  {<<"auth", "admin", "login">>, <<"auth", "user", "login">>,
   <<"auth", "admin", "refresh">>, <<"auth", "user", "refresh">>}

Urls == {<<"students">>, <<"auth", "user", "login">>,
         <<"api", "auth", "admin", "refresh">>}

\* authEndpoints.some((endpoint) => config.url?.includes(endpoint))
isAuthEndpoint(url) == \E endpoint \in AuthEndpoints : Includes(url, endpoint)

NoToken == 0                        \* no access token / no Authorization header

\* The credential pair after login: access token 1 and a refresh token.
InitialTokens == [access |-> 1, refresh |-> TRUE, expired |-> FALSE]

\* TokenManager.clearTokens()
clearTokens == [access |-> NoToken, refresh |-> FALSE, expired |-> FALSE]

\* What TokenManager.getValidAccessToken() comes to: the cached token while it
\* is valid, a refresh first when it is expired or absent and there is a
\* refresh token, nothing otherwise.
getValidAccessToken(tok) ==
  IF tok.access # NoToken /\ ~tok.expired THEN "valid"
  ELSE IF tok.refresh THEN "refresh"
  ELSE "none"

\* (a slip: every caller starts a refresh call of its own)
refreshAccessToken_NotShared(ref) ==
  [ref EXCEPT !.inFlight = @ + 1, !.calls = @ + 1]

\* TokenManager.refreshAccessToken(): callers that find a refresh in flight
\* await that one; otherwise one refresh call is made.
refreshAccessToken(ref) ==
  IF ref.inFlight > 0 THEN ref
  ELSE [ref EXCEPT !.inFlight = 1, !.calls = @ + 1]

\* (a slip: every assignment counts as a navigation of its own)
RedirectToLogin_EveryTime(ses) ==
  [location |-> <<"login">>, navigations |-> ses.navigations + 1]

\* window.location.href = '/login': the browser leaves the page it is on;
\* assigning the address it is already going to starts no further navigation.
RedirectToLogin(ses) ==
  [location |-> <<"login">>,
   navigations |-> IF ses.location = <<"login">> THEN ses.navigations
                   ELSE ses.navigations + 1]

\* A request on its way: its config (url, _retry, the Authorization header),
\* what the request interceptor did with it, where it stands, how often it
\* went to the network, the first failure it met and how its promise settled;
\* and, of its making, whether every earlier request was still pending and
\* how many refresh calls had been made.
NewRequest(url, hook, stage, token) ==
  [url |-> url, _retry |-> FALSE, Authorization |-> token, hook |-> hook,
   stage |-> stage, sends |-> IF stage = "sent" THEN 1 ELSE 0,
   error |-> 0, result |-> "pending", status |-> 0,
   together |-> \A k \in 1..Len(requests) : requests[k].stage # "done",
   epoch |-> refresh.calls]

\* What the server, or the network, answers: a status (0: no response at
\* all) and whether the error carries the request's config.
Answer(status, config) == [status |-> status, config |-> config]

Answers ==
  {Answer(200, TRUE), Answer(401, TRUE), Answer(500, TRUE), Answer(0, TRUE),
   Answer(401, FALSE)}

\* (a slip: a request for which no credential was obtained is rejected)
Proceed_Rejecting(req, accessToken) ==
  IF accessToken # NoToken
  THEN [req EXCEPT !.Authorization = accessToken, !.hook = "attached",
                   !.stage = "sent", !.sends = @ + 1]
  ELSE [req EXCEPT !.hook = "bare", !.stage = "done", !.result = "rejected"]

\* The request interceptor going on after getValidAccessToken() has settled,
\* with a credential or with none (null, or the call threw): the header is
\* set only for a credential, and the configuration is returned either way.
Proceed(req, accessToken) ==
  [req EXCEPT !.Authorization = accessToken,
              !.hook = IF accessToken # NoToken THEN "attached" ELSE "bare",
              !.stage = "sent", !.sends = @ + 1]

\* The request interceptor: auth endpoints pass through; any other request
\* asks the token manager for a valid access token, which may have to refresh
\* first; a token obtained is attached, a failure to obtain one is caught and
\* the request goes on without a header.
SendRequest ==
  \E url \in Urls, threw \in BOOLEAN :
    /\ Len(requests) < MaxRequests
    /\ IF isAuthEndpoint(url)
       THEN /\ requests' = Append(requests, NewRequest(url, "skipped", "sent", NoToken))
            /\ UNCHANGED refresh
       ELSE IF threw
       THEN /\ requests' = Append(requests,
                 Proceed(NewRequest(url, "waiting", "token", NoToken), NoToken))
            /\ UNCHANGED refresh
       ELSE CASE getValidAccessToken(tokens) = "valid" ->
                   /\ requests' = Append(requests,
                        Proceed(NewRequest(url, "waiting", "token", NoToken),
                                tokens.access))
                   /\ UNCHANGED refresh
              [] getValidAccessToken(tokens) = "none" ->
                   /\ requests' = Append(requests,
                        Proceed(NewRequest(url, "waiting", "token", NoToken),
                                NoToken))
                   /\ UNCHANGED refresh
              [] getValidAccessToken(tokens) = "refresh" ->
                   /\ refreshAccessToken(refresh).calls <= MaxRefreshes
                   /\ refresh' = refreshAccessToken(refresh)
                   /\ requests' = Append(requests,
                        NewRequest(url, "waiting", "token", NoToken))
    /\ UNCHANGED <<tokens, session>>
    /\ UNCHANGED <<storeVars, uiVars>>

\* (a slip: the retry mark is not looked at)
ShouldRefresh_RetryIgnored(req, answer) ==
  answer.config /\ answer.status = 401 /\ ~isAuthEndpoint(req.url)

\* error.response?.status === 401 && !originalRequest._retry && !isAuthEndpoint
ShouldRefresh(req, answer) ==
  /\ answer.config
  /\ answer.status = 401
  /\ ~req._retry
  /\ ~isAuthEndpoint(req.url)

\* The promise of the request rejects with the error it met.
Rejected(req, status) ==
  [req EXCEPT !.stage = "done", !.result = "rejected", !.status = status,
              !.error = IF @ = 0 THEN status ELSE @]

\* A response, or a network error, arrives for a request that was sent.  A
\* success resolves the promise; a failure goes to the response error handler,
\* which marks the request and calls for a refresh, or rejects.
Respond ==
  \E r \in 1..Len(requests), answer \in Answers :
    LET req == requests[r] IN
    /\ req.stage = "sent"
    /\ IF answer.status = 200
       THEN /\ requests' = [requests EXCEPT ![r] =
                 [req EXCEPT !.stage = "done", !.result = "resolved",
                             !.status = 200]]
            /\ UNCHANGED refresh
       ELSE IF ShouldRefresh(req, answer)
       THEN /\ refreshAccessToken(refresh).calls <= MaxRefreshes
            /\ refresh' = refreshAccessToken(refresh)
            /\ requests' = [requests EXCEPT ![r] =
                 [req EXCEPT !._retry = TRUE, !.stage = "refresh",
                             !.error = answer.status]]
       ELSE /\ requests' = [requests EXCEPT ![r] = Rejected(req, answer.status)]
            /\ UNCHANGED refresh
    /\ UNCHANGED <<tokens, session>>
    /\ UNCHANGED <<storeVars, uiVars>>

\* (a slip: the request is replayed with the header it had)
Reissue_OldHeader(req, newAccessToken, tok) ==
  [req EXCEPT !.stage = "sent", !.sends = @ + 1]

\* originalRequest.headers.Authorization = `Bearer ${newAccessToken}`;
\* return httpClient(originalRequest): the request passes the request
\* interceptor again, which attaches the token the token manager now gives.
Reissue(req, newAccessToken, tok) ==
  [req EXCEPT !.Authorization =
                 IF getValidAccessToken(tok) = "valid" THEN tok.access
                 ELSE newAccessToken,
              !.stage = "sent", !.sends = @ + 1]

Waiting(stage) == {r \in 1..Len(requests) : requests[r].stage = stage}

\* (a slip: the refresh failed but the credentials are kept)
RefreshFailed_TokensKept(tok, ses) == [tokens |-> tok, session |-> RedirectToLogin(ses)]

\* TokenManager.clearTokens(); window.location.href = '/login'
RefreshFailed(tok, ses) == [tokens |-> clearTokens, session |-> RedirectToLogin(ses)]

\* The failure branch run by n requests, one after the other.
RECURSIVE RefreshFailedTimes(_, _, _)
RefreshFailedTimes(n, tok, ses) ==
  IF n = 0 THEN [tokens |-> tok, session |-> ses]
  ELSE LET once == RefreshFailed(tok, ses)
       IN RefreshFailedTimes(n - 1, once.tokens, once.session)

\* The refresh call settles, with a new access token or with none, and every
\* caller awaiting it goes on: the response error handler replays its request
\* or gives up the session and rejects, the request interceptor sends its
\* request.
RefreshSettle ==
  \E ok \in BOOLEAN :
    LET newAccessToken == refresh.calls + 1
        newTokens == [access |-> newAccessToken, refresh |-> TRUE, expired |-> FALSE]
        after == RefreshFailedTimes(Cardinality(Waiting("refresh")), tokens, session)
    IN
    /\ refresh.inFlight > 0
    /\ ok => tokens.refresh
    /\ IF ok
       THEN /\ tokens' = newTokens
            /\ session' = session
            /\ refresh' = [refresh EXCEPT !.inFlight = @ - 1]
            /\ requests' = [r \in 1..Len(requests) |->
                 CASE requests[r].stage = "refresh" ->
                        Reissue(requests[r], newAccessToken, newTokens)
                   [] requests[r].stage = "token" ->
                        Proceed(requests[r], newAccessToken)
                   [] OTHER -> requests[r]]
       ELSE /\ tokens' = after.tokens
            /\ session' = after.session
            /\ refresh' = [refresh EXCEPT !.inFlight = @ - 1, !.failed = @ + 1]
            /\ requests' = [r \in 1..Len(requests) |->
                 CASE requests[r].stage = "refresh" ->
                        Rejected(requests[r], requests[r].error)
                   [] requests[r].stage = "token" ->
                        Proceed(requests[r], NoToken)
                   [] OTHER -> requests[r]]
    /\ UNCHANGED <<storeVars, uiVars>>

\* The access token runs out.
Expire ==
  /\ tokens.access # NoToken
  /\ ~tokens.expired
  /\ tokens' = [tokens EXCEPT !.expired = TRUE]
  /\ UNCHANGED <<requests, refresh, session>>
  /\ UNCHANGED <<storeVars, uiVars>>

InitHttp ==
  /\ requests = <<>>
  /\ tokens = InitialTokens
  /\ refresh = [inFlight |-> 0, calls |-> 0, failed |-> 0]
  /\ session = [location |-> <<"app">>, navigations |-> 0]

\* ---------------------------------------------------------------------
\* useAuthGuard (src/hooks/auth/useAuth.ts)

Roles == {"student", "lecturer", "moderator"}

\* The options the convenience hooks pass, and the defaults.
useAuthGuardDefault == [allowedRoles |-> {}, requireModerator |-> FALSE]
useLecturerAuth == [allowedRoles |-> {"lecturer"}, requireModerator |-> FALSE]
useModeratorAuth ==
  [allowedRoles |-> {"lecturer", "moderator"}, requireModerator |-> TRUE]

Hooks == {useAuthGuardDefault, useLecturerAuth, useModeratorAuth}

checkPermissions(role, isModerator, allowedRoles, requireModerator) ==
  IF allowedRoles # {} /\ role \notin allowedRoles THEN FALSE
  ELSE IF requireModerator
       THEN IF role = "moderator" THEN TRUE
            ELSE IF ~isModerator THEN FALSE ELSE TRUE
       ELSE TRUE

NoUser == [role |-> "none", isModerator |-> FALSE]

\* What useSession() gives: the status, the user, and whether the session
\* carries an access and a refresh token.
Sessions ==
  {[status |-> "loading", user |-> NoUser, hasTokens |-> FALSE],
   [status |-> "unauthenticated", user |-> NoUser, hasTokens |-> FALSE]}
  \cup [status : {"authenticated"},
        user : [role : Roles, isModerator : BOOLEAN],
        hasTokens : BOOLEAN]

\* The hook as mounted: isAuthorized is null, hasValidTokens false, and both
\* effects are to run, in the order they are declared.
Mounted(options) ==
  [options |-> options,
   data |-> [status |-> "loading", user |-> NoUser, hasTokens |-> FALSE],
   isAuthorized |-> "null",
   hasValidTokens |-> FALSE,
   effects |-> {"checkTokens", "main"},
   checking |-> FALSE,
   pushed |-> "",
   updates |-> 0]

\* The token the session carries, as TokenManager.setTokens stores it.
SessionTokens == [access |-> 1, refresh |-> TRUE, expired |-> FALSE]

\* TokenManager.getFastAccessToken()
getFastAccessToken(tok) == tok.access # NoToken /\ ~tok.expired

\* setHasValidTokens(v): a changed value has the main effect run again.
setHasValidTokens(g, v) ==
  [g EXCEPT !.hasValidTokens = v,
            !.effects = IF v # g.hasValidTokens THEN @ \cup {"main"} ELSE @]

\* useSession() hands the hook another session or status: both effects have
\* it among their dependencies.
SessionUpdate ==
  \E data \in Sessions :
    /\ guard.updates < MaxSessions
    /\ data # guard.data
    /\ data.status # "loading"
    /\ guard' = [guard EXCEPT !.data = data,
                              !.effects = {"checkTokens", "main"},
                              !.updates = @ + 1]
    /\ UNCHANGED <<storeVars, httpVars, nav, invite, debounce, route>>

\* The first effect: checkTokens up to its await.
CheckTokens ==
  /\ "checkTokens" \in guard.effects
  /\ ~guard.checking
  /\ LET g == [guard EXCEPT !.effects = @ \ {"checkTokens"}]
     IN IF getFastAccessToken(tokens)
        THEN /\ guard' = setHasValidTokens(g, TRUE)
             /\ UNCHANGED refresh
        ELSE IF tokens.access # NoToken /\ tokens.refresh
        THEN CASE getValidAccessToken(tokens) = "valid" ->
                    /\ guard' = setHasValidTokens(g, TRUE)
                    /\ UNCHANGED refresh
               [] getValidAccessToken(tokens) = "none" ->
                    /\ guard' = setHasValidTokens(g, FALSE)
                    /\ UNCHANGED refresh
               [] getValidAccessToken(tokens) = "refresh" ->
                    /\ refreshAccessToken(refresh).calls <= MaxRefreshes
                    /\ refresh' = refreshAccessToken(refresh)
                    /\ guard' = [g EXCEPT !.checking = TRUE]
        ELSE /\ guard' = setHasValidTokens(g, FALSE)
             /\ UNCHANGED refresh
  /\ UNCHANGED <<storeVars, requests, tokens, session, nav, invite, debounce, route>>

\* checkTokens after its await: the refresh it waited for has settled.
CheckTokensSettle ==
  /\ guard.checking
  /\ refresh.inFlight = 0
  /\ guard' = setHasValidTokens([guard EXCEPT !.checking = FALSE],
                                getValidAccessToken(tokens) = "valid")
  /\ UNCHANGED <<storeVars, httpVars, nav, invite, debounce, route>>

\* (a slip: a user without the permissions is sent away but not marked)
handleUserAuthorization_NotMarked(g) ==
  IF ~checkPermissions(g.data.user.role, g.data.user.isModerator,
                       g.options.allowedRoles, g.options.requireModerator)
  THEN [g EXCEPT !.pushed = "/unauthorized"]
  ELSE [g EXCEPT !.isAuthorized = "true"]

handleUserAuthorization(g) ==
  IF ~checkPermissions(g.data.user.role, g.data.user.isModerator,
                       g.options.allowedRoles, g.options.requireModerator)
  THEN [g EXCEPT !.isAuthorized = "false", !.pushed = "/unauthorized"]
  ELSE [g EXCEPT !.isAuthorized = "true"]

handleFastAuth(g) ==
  g.hasValidTokens /\ g.data.status = "authenticated" /\ g.data.user # NoUser

handleUnauthenticated(g, tok) ==
  [guard |-> [g EXCEPT !.isAuthorized = "false", !.pushed = "/login"],
   tokens |-> clearTokens]

handleAuthenticated(g, tok) ==
  IF g.data.user # NoUser
  THEN [guard |-> handleUserAuthorization(g),
        tokens |-> IF g.data.hasTokens THEN SessionTokens ELSE tok]
  ELSE [guard |-> g, tokens |-> tok]

\* The second effect.
Authorize ==
  /\ "main" \in guard.effects
  /\ "checkTokens" \notin guard.effects
  /\ LET g == [guard EXCEPT !.effects = @ \ {"main"}]
         after ==
           IF handleFastAuth(g)
           THEN [guard |-> handleUserAuthorization(g), tokens |-> tokens]
           ELSE CASE g.data.status = "loading" ->
                       [guard |-> [g EXCEPT !.isAuthorized = "null"],
                        tokens |-> tokens]
                  [] g.data.status = "unauthenticated" ->
                       handleUnauthenticated(g, tokens)
                  [] g.data.status = "authenticated" ->
                       handleAuthenticated(g, tokens)
     IN /\ guard' = after.guard
        /\ tokens' = after.tokens
  /\ UNCHANGED <<storeVars, requests, refresh, session, nav, invite, debounce, route>>

InitGuard(hooks) == \E options \in hooks : guard = Mounted(options)

\* ---------------------------------------------------------------------
\* Route guard (route configuration, findMatchingRoute, checkRoutePermission)
\* Paths are sequences of tokens: "/" and the words between.

USER_ROLES ==
  [STUDENT |-> "student", LECTURER |-> "lecturer",
   MODERATOR |-> "moderator", ADMIN |-> "admin"]

DASHBOARD_PATHS ==
  [STUDENT |-> <<"/", "student">>,
   LECTURER |-> <<"/", "lecturer">>,
   ADMIN |-> <<"/", "admin">>,
   LECTURER_GROUP_MANAGEMENT |-> <<"/", "lecturer", "/", "group-management">>,
   LECTURER_ASSIGN_STUDENT_DETAIL |->
     <<"/", "lecturer", "/", "assign-student-detail">>,
   LECTURER_ASSIGN_SUPERVISOR |-> <<"/", "lecturer", "/", "assign-supervisor">>,
   LECTURER_ASSIGN_LIST_PUBLISH_THESIS |->
     <<"/", "lecturer", "/", "assign-list-publish-thesis">>,
   LECTURER_ASSIGN_LECTURER_REVIEW |->
     <<"/", "lecturer", "/", "assign-lecturer-review">>,
   LECTURER_CHECKLIST_MANAGEMENT |->
     <<"/", "lecturer", "/", "checklist-management">>]

RouteConfig(path, requiredRole, requiresModerator) ==
  [path |-> path, requiredRole |-> requiredRole,
   requiresModerator |-> requiresModerator]

\* requiresModerator is left out of the entries that do not set it: FALSE
\* stands for undefined.
ROUTE_CONFIGS ==
  <<RouteConfig(DASHBOARD_PATHS.STUDENT, USER_ROLES.STUDENT, FALSE),
    RouteConfig(DASHBOARD_PATHS.LECTURER, USER_ROLES.LECTURER, FALSE),
    RouteConfig(DASHBOARD_PATHS.LECTURER_GROUP_MANAGEMENT, USER_ROLES.LECTURER, TRUE),
    RouteConfig(DASHBOARD_PATHS.LECTURER_ASSIGN_STUDENT_DETAIL, USER_ROLES.LECTURER, TRUE),
    RouteConfig(DASHBOARD_PATHS.LECTURER_ASSIGN_SUPERVISOR, USER_ROLES.LECTURER, TRUE),
    RouteConfig(DASHBOARD_PATHS.LECTURER_ASSIGN_LIST_PUBLISH_THESIS, USER_ROLES.LECTURER, TRUE),
    RouteConfig(DASHBOARD_PATHS.LECTURER_ASSIGN_LECTURER_REVIEW, USER_ROLES.LECTURER, TRUE),
    RouteConfig(DASHBOARD_PATHS.LECTURER_CHECKLIST_MANAGEMENT, USER_ROLES.LECTURER, TRUE),
    RouteConfig(DASHBOARD_PATHS.ADMIN, USER_ROLES.ADMIN, FALSE)>>

\* The paths of the moderator-only routes.
ModeratorPaths ==
  {ROUTE_CONFIGS[k].path : k \in {j \in 1..Len(ROUTE_CONFIGS) :
                                    ROUTE_CONFIGS[j].requiresModerator}}

\* The pathnames put to the guard: every configured path, pages below them,
\* and pages of no route.
Pathnames ==
  {ROUTE_CONFIGS[k].path : k \in 1..Len(ROUTE_CONFIGS)}
  \cup {p \o <<"/", "7">> : p \in ModeratorPaths}
  \cup {<<"/", "lecturer", "/", "thesis-management">>,
        <<"/", "lecturer", "s">>, <<"/", "login">>, <<"/">>}

\* String.prototype.startsWith
startsWith(s, prefix) ==
  Len(prefix) <= Len(s) /\ SubSeq(s, 1, Len(prefix)) = prefix

NoRoute == RouteConfig(<<>>, "none", FALSE)

\* ROUTE_CONFIGS.find(...): the first entry that matches, or undefined.
findMatchingRoute(pathname) ==
  LET matching == {k \in 1..Len(ROUTE_CONFIGS) :
                     startsWith(pathname, ROUTE_CONFIGS[k].path)}
  IN IF matching = {} THEN NoRoute
     ELSE ROUTE_CONFIGS[CHOOSE k \in matching : \A j \in matching : k <= j]

\* canAccessRoute(userRole, isModerator, requiredRole, requiresModerator):
\* the role must be the required one, a moderator counting as a lecturer, and
\* a moderator-only route asks for the moderator role or the flag.
canAccessRoute(userRole, isModerator, requiredRole, requiresModerator) ==
  /\ \/ userRole = requiredRole
     \/ userRole = USER_ROLES.MODERATOR /\ requiredRole = USER_ROLES.LECTURER
  /\ requiresModerator => (userRole = USER_ROLES.MODERATOR \/ isModerator)

checkRoutePermission(found, userRole, isModerator) ==
  canAccessRoute(userRole, isModerator, found.requiredRole, found.requiresModerator)

\* A visit: the pathname and the user of a request for a page.
Visit(pathname, userRole, isModerator) ==
  [pathname |-> pathname, userRole |-> userRole, isModerator |-> isModerator,
   stage |-> "visit", found |-> NoRoute, hasAccess |-> FALSE]

FindMatchingRoute ==
  /\ route.stage = "visit"
  /\ route' = [route EXCEPT !.stage = "matched",
                            !.found = findMatchingRoute(route.pathname)]
  /\ UNCHANGED <<storeVars, httpVars, guard, nav, invite, debounce>>

CheckRoutePermission ==
  /\ route.stage = "matched"
  /\ route.found # NoRoute
  /\ route' = [route EXCEPT
       !.stage = "checked",
       !.hasAccess = checkRoutePermission(route.found, route.userRole,
                                          route.isModerator)]
  /\ UNCHANGED <<storeVars, httpVars, guard, nav, invite, debounce>>

InitRoute(pathnames) ==
  \E pathname \in pathnames,
     userRole \in {USER_ROLES.STUDENT, USER_ROLES.LECTURER,
                   USER_ROLES.MODERATOR, USER_ROLES.ADMIN},
     isModerator \in BOOLEAN :
    route = Visit(pathname, userRole, isModerator)

\* ---------------------------------------------------------------------
\* NavigationLoader (navigation context, page-ready detection)
\* A handler is taken together with the render and the effects that follow it.

Paths == {"/a", "/b", "/c"}

NoPath == "null"

maxAttempts == 15

NoRun == [attempts |-> 0, stage |-> "none", race |-> "none"]

NavCall(op, arg) == [op |-> op, arg |-> arg]

\* (a slip: a navigation is started over one that is in progress)
startNavigation_NotGuarded(n, targetPath) ==
  IF targetPath # n.pathname
  THEN [n EXCEPT !.isNavigating = TRUE, !.targetPath = targetPath,
                 !.completedRef = FALSE, !.timeoutRef = TRUE]
  ELSE n

\* startNavigation, and the safety-timeout effect that runs when isNavigating
\* has become true: timeoutRef.current = setTimeout(completeNavigation, 2500).
startNavigation(n, targetPath) ==
  IF targetPath # n.pathname /\ ~n.isNavigating
  THEN [n EXCEPT !.isNavigating = TRUE, !.targetPath = targetPath,
                 !.completedRef = FALSE, !.timeoutRef = TRUE]
  ELSE n

\* completeNavigation: the timeout is cleared there and by the effect's cleanup.
completeNavigation(n) ==
  IF ~n.completedRef
  THEN [n EXCEPT !.completedRef = TRUE, !.isNavigating = FALSE,
                 !.targetPath = NoPath, !.timeoutRef = FALSE]
  ELSE n

\* resolve() of the content check: the check stops, and the race is won
\* unless the fallback has won it.
resolve(run) ==
  [run EXCEPT !.stage = "stopped",
              !.race = IF @ = "pending" THEN "delay" ELSE @]

\* handleContentCheckIteration, attempts counted by checkContent before.
handleContentCheckIteration(run, good) ==
  IF good THEN [run EXCEPT !.stage = "stability"]
  ELSE IF run.attempts >= maxAttempts THEN resolve(run)
  ELSE [run EXCEPT !.stage = "poll"]

performStabilityCheck(run, stable) ==
  IF stable THEN resolve(run)
  ELSE IF run.attempts < maxAttempts THEN [run EXCEPT !.stage = "poll"]
  ELSE resolve(run)

\* checkContent(): attempts++, then the iteration.
checkContent(run, good) ==
  handleContentCheckIteration([run EXCEPT !.attempts = @ + 1], good)

\* A run of detectPageReady that is over, check and race, is forgotten.
Over(run) == IF run.stage = "stopped" /\ run.race = "done" THEN NoRun ELSE run

\* The caller of the context calls startNavigation(targetPath).
StartNavigation ==
  \E targetPath \in Paths :
    /\ nav' = [startNavigation(nav, targetPath) EXCEPT
                 !.last = NavCall("startNavigation", targetPath)]
    /\ UNCHANGED <<storeVars, httpVars, guard, invite, debounce, route>>

\* usePathname() gives another pathname.  When it is the target of the
\* navigation in progress the effect calls detectPageReady: the content check
\* makes its first attempt at once and the race begins.  A run still racing
\* goes on beside the new one.
PathnameChanges ==
  \E pathname \in Paths :
    /\ pathname # nav.pathname
    /\ LET n == [nav EXCEPT !.pathname = pathname,
                            !.last = NavCall("pathname", pathname)]
           racing == nav.run.race \in {"pending", "delay"}
       IN IF nav.isNavigating /\ nav.targetPath = pathname
          THEN /\ racing => nav.stale < MaxStale
               /\ \E good \in BOOLEAN :
                    nav' = [n EXCEPT
                      !.run = checkContent([attempts |-> 0, stage |-> "poll",
                                            race |-> "pending"], good),
                      !.stale = IF racing THEN @ + 1 ELSE @]
          ELSE nav' = n
    /\ UNCHANGED <<storeVars, httpVars, guard, invite, debounce, route>>

\* setTimeout(checkContent, 80) fires.
CheckContent ==
  \E good \in BOOLEAN :
    /\ nav.run.stage = "poll"
    /\ nav' = [nav EXCEPT !.run = Over(checkContent(nav.run, good)),
                          !.last = NavCall("checkContent", NoPath)]
    /\ UNCHANGED <<storeVars, httpVars, guard, invite, debounce, route>>

\* The 30 ms timer of the stability check fires.
StabilityCheck ==
  \E stable \in BOOLEAN :
    /\ nav.run.stage = "stability"
    /\ nav' = [nav EXCEPT !.run = Over(performStabilityCheck(nav.run, stable)),
                          !.last = NavCall("performStabilityCheck", NoPath)]
    /\ UNCHANGED <<storeVars, httpVars, guard, invite, debounce, route>>

\* The 1500 ms fallback wins the race.
FallbackTimeout ==
  /\ nav.run.race = "pending"
  /\ nav' = [nav EXCEPT !.run.race = "delay",
                        !.last = NavCall("fallback", NoPath)]
  /\ UNCHANGED <<storeVars, httpVars, guard, invite, debounce, route>>

\* handleNavigationCompletion: 50 ms after the race, completeNavigation().
NavigationCompletion ==
  /\ nav.run.race = "delay"
  /\ nav' = [completeNavigation(nav) EXCEPT
               !.run = Over([nav.run EXCEPT !.race = "done"]),
               !.last = NavCall("handleNavigationCompletion", nav.targetPath)]
  /\ UNCHANGED <<storeVars, httpVars, guard, invite, debounce, route>>

\* The same, of a run started for an earlier arrival.
StaleCompletion ==
  /\ nav.stale > 0
  /\ nav' = [completeNavigation(nav) EXCEPT
               !.stale = @ - 1,
               !.last = NavCall("handleNavigationCompletion", nav.targetPath)]
  /\ UNCHANGED <<storeVars, httpVars, guard, invite, debounce, route>>

\* The safety timeout fires.
SafetyTimeout ==
  /\ nav.timeoutRef
  /\ nav' = [completeNavigation([nav EXCEPT !.timeoutRef = FALSE]) EXCEPT
               !.last = NavCall("safetyTimeout", nav.targetPath)]
  /\ UNCHANGED <<storeVars, httpVars, guard, invite, debounce, route>>

\* The caller of the context calls completeNavigation().
CompleteNavigation ==
  /\ nav' = [completeNavigation(nav) EXCEPT
               !.last = NavCall("completeNavigation", nav.targetPath)]
  /\ UNCHANGED <<storeVars, httpVars, guard, invite, debounce, route>>

InitNav(pathnames) ==
  \E pathname \in pathnames :
    nav = [pathname |-> pathname, isNavigating |-> FALSE,
           targetPath |-> NoPath, completedRef |-> FALSE,
           timeoutRef |-> FALSE, run |-> NoRun, stale |-> 0,
           last |-> NavCall("none", NoPath)]

\* ---------------------------------------------------------------------
\* InviteTeamMembers (handleAddMember)

\* TEAM_CONFIG.MAX_MEMBERS
MAX_MEMBERS == 4

Undefined == 0

\* The id of the user who is logged in.
Self == 1

\* The students the store holds; student i has an email and a student code.
Digit(i) == <<"1", "2", "3", "4", "5", "6", "7", "8", "9">>[i]

InviteStudent(i) ==
  [id |-> i, email |-> <<"n", Digit(i)>>, studentCode |-> <<"F", Digit(i)>>]

inviteStudents == [i \in 1..MaxStudents |-> InviteStudent(i)]

\* What can be typed into the search box.
InviteSearchTexts ==
  {<<>>, <<" ">>, <<"n", "1">>, <<"N", "2">>, <<"f", "3">>, <<"n">>}

\* String.prototype.trim
RECURSIVE trim(_)
trim(s) ==
  IF s = <<>> THEN s
  ELSE IF Head(s) = " " THEN trim(Tail(s))
  ELSE IF s[Len(s)] = " " THEN trim(SubSeq(s, 1, Len(s) - 1))
  ELSE s

\* students.find(...) of handleAddMember: the first student who is neither
\* the current user nor excluded and whose email or code is the text typed.
findStudent(n) ==
  LET searchLower == toLowerCase(n.searchText)
      matching == {k \in 1..Len(inviteStudents) :
                     /\ ~(n.currentUserId # Undefined
                          /\ inviteStudents[k].id = n.currentUserId)
                     /\ inviteStudents[k].id \notin n.excludeUserIds
                     /\ \/ toLowerCase(inviteStudents[k].email) = searchLower
                        \/ toLowerCase(inviteStudents[k].studentCode) = searchLower}
  IN IF matching = {} THEN Undefined
     ELSE inviteStudents[CHOOSE k \in matching : \A j \in matching : k <= j].id

Rejection(n, student, title) ==
  [n EXCEPT !.last = [op |-> "handleAddMember", arg |-> student, title |-> title]]

totalMembersAfterAdd(n) ==
  IF n.currentMemberCount # Undefined
  THEN n.currentMemberCount + Len(n.members) + 1
  ELSE Len(n.members) + 1 + 1

isAlreadyMember(n, id) == \E k \in 1..Len(n.members) : n.members[k] = id

\* handleAddMember(student): members are held by their ids.
handleAddMember(n, student) ==
  IF student # Undefined /\ n.currentUserId # Undefined
     /\ student = n.currentUserId
  THEN Rejection(n, student, "Cannot Add Yourself")
  ELSE IF student # Undefined /\ student \in n.excludeUserIds
  THEN Rejection(n, student, "Already a Member")
  ELSE IF student = Undefined /\ trim(n.searchText) = <<>>
  THEN Rejection(n, student, "")
  ELSE LET targetStudent == IF student = Undefined THEN findStudent(n) ELSE student
       IN IF targetStudent = Undefined
          THEN Rejection(n, student, "Student Not Found")
          ELSE IF isAlreadyMember(n, targetStudent)
          THEN Rejection(n, student, "Already Added")
          ELSE IF totalMembersAfterAdd(n) > MAX_MEMBERS
          THEN Rejection(n, student, "Member Limit Exceeded")
          ELSE [n EXCEPT !.members = Append(@, targetStudent),
                         !.searchText = <<>>,
                         !.last = [op |-> "handleAddMember", arg |-> student,
                                   title |-> "Success"]]

\* A student is picked from the options, or the text typed is submitted.
HandleAddMember ==
  \E student \in {Undefined} \cup (1..MaxStudents) :
    /\ invite' = handleAddMember(invite, student)
    /\ UNCHANGED <<storeVars, httpVars, guard, nav, debounce, route>>

\* onSearch={setSearchText}
InviteSearch ==
  \E text \in InviteSearchTexts :
    /\ text # invite.searchText
    /\ invite' = [invite EXCEPT
                    !.searchText = text,
                    !.last = [op |-> "setSearchText", arg |-> Undefined,
                              title |-> ""]]
    /\ UNCHANGED <<storeVars, httpVars, guard, nav, debounce, route>>

\* useSession settles: session?.user?.id becomes the id of the user.
InviteSessionLoaded ==
  /\ invite.currentUserId = Undefined
  /\ invite' = [invite EXCEPT
                  !.currentUserId = Self,
                  !.last = [op |-> "session", arg |-> Undefined, title |-> ""]]
  /\ UNCHANGED <<storeVars, httpVars, guard, nav, debounce, route>>

\* The component as mounted: nobody selected; the session is loading or says
\* who is logged in, the props say who is excluded and, when inviting to an existing group, its size.
InitInvite(currentUserIds, excluded, counts) ==
  \E currentUserId \in currentUserIds, excludeUserIds \in excluded,
     currentMemberCount \in counts :
    invite = [members |-> <<>>, searchText |-> <<>>,
              currentUserId |-> currentUserId,
              excludeUserIds |-> excludeUserIds,
              currentMemberCount |-> currentMemberCount,
              last |-> [op |-> "none", arg |-> Undefined, title |-> ""]]

\* ---------------------------------------------------------------------
\* useDebounce

\* What the debounced input can be: a search text as it is typed.
DebounceValues == {<<>>, <<"n">>, <<"n", "1">>}

\* setTimeout(() => setDebouncedValue(value), delay): the handler keeps the
\* value of the render that set it; remaining counts the ticks until it is due.
setTimeout(value) == [value |-> value, remaining |-> Delay]

\* (a slip: the cleanup leaves the pending timer running)
clearTimeout_Kept(timers) == timers

\* The cleanup of the effect: clearTimeout(handler).
clearTimeout(timers) == {}

\* useDebounce(value, delay) as first rendered: debouncedValue starts at the
\* value and the effect sets the first timer.  age is the time the value has
\* stayed unchanged, replacedAge the age the value before it had reached.
useDebounce(value) ==
  [value |-> value, debouncedValue |-> value, timers |-> {setTimeout(value)},
   age |-> 0, replacedAge |-> 0, changes |-> 0, last |-> "mount"]

\* The hook is rendered with another value: the effect's dependencies changed,
\* so its cleanup runs and the effect sets a new timer.
DebounceSetValue ==
  \E value \in DebounceValues :
    /\ value # debounce.value
    /\ debounce.changes < MaxInputs
    /\ debounce' = [debounce EXCEPT
                      !.value = value,
                      !.timers = clearTimeout(@) \cup {setTimeout(value)},
                      !.age = 0,
                      !.replacedAge = debounce.age,
                      !.changes = @ + 1,
                      !.last = "setValue"]
    /\ UNCHANGED <<storeVars, httpVars, guard, nav, invite, route>>

\* One tick of time passes; a timer that is due runs before time goes on.
DebounceTick ==
  /\ \A h \in debounce.timers : h.remaining > 0
  /\ debounce.timers # {} \/ debounce.age < Delay
  /\ debounce' = [debounce EXCEPT
                    !.timers = {[h EXCEPT !.remaining = @ - 1] : h \in @},
                    !.age = IF @ < Delay THEN @ + 1 ELSE @,
                    !.last = "tick"]
  /\ UNCHANGED <<storeVars, httpVars, guard, nav, invite, route>>

\* A timer that is due runs its handler: setDebouncedValue(value).
DebounceFire ==
  \E h \in debounce.timers :
    /\ h.remaining = 0
    /\ debounce' = [debounce EXCEPT
                      !.debouncedValue = h.value,
                      !.timers = @ \ {h},
                      !.last = "fire"]
    /\ UNCHANGED <<storeVars, httpVars, guard, nav, invite, route>>

InitDebounce(values) == \E value \in values : debounce = useDebounce(value)

InitUi ==
  /\ InitGuard({useModeratorAuth})
  /\ InitNav({"/a"})
  /\ InitInvite({Self}, {{}}, {Undefined})
  /\ InitDebounce({<<>>})
  /\ route = Visit(DASHBOARD_PATHS.LECTURER, USER_ROLES.LECTURER, FALSE)

InitStore(hasFilters) ==
  /\ \E hasFilter \in hasFilters : store = InitialState(hasFilter)
  /\ calls = EmptyBag
  /\ db = InitialDb
  /\ nextId = Len(InitialDb) + 1
  /\ issued = 0
  /\ last = NoEvent

InitWith(hasFilters) ==
  /\ InitStore(hasFilters)
  /\ InitHttp
  /\ InitUi

Init == InitWith(BOOLEAN)

\* A store that has a filter function, as the student store has.
InitFiltered == InitWith({TRUE})

\* The store's actions.
NextStore ==
  \/ FetchStart \/ FetchSettle
  \/ FetchBySemesterSkip \/ FetchBySemesterStart \/ FetchBySemesterSettle
  \/ CreateStart \/ CreateSettle
  \/ CreateManyStart \/ CreateManySettle
  \/ UpdateStart \/ UpdateSettle
  \/ ToggleStatusStart \/ ToggleStatusSettle
  \/ DeleteStart \/ DeleteSettle
  \/ Reset \/ SetSearchText

SpecStore == Init /\ [][NextStore]_vars

\* The HTTP client's steps.
NextHttp == SendRequest \/ Respond \/ RefreshSettle \/ Expire

SpecHttp == InitFiltered /\ [][NextHttp]_vars

\* The auth guard's steps, with the token manager's refresh beside them.
NextGuard ==
  \/ SessionUpdate \/ CheckTokens \/ CheckTokensSettle \/ Authorize
  \/ RefreshSettle \/ Expire

InitGuarded ==
  /\ InitStore({TRUE}) /\ InitHttp /\ InitGuard(Hooks)
  /\ InitNav({"/a"}) /\ InitInvite({Self}, {{}}, {Undefined}) /\ InitDebounce({<<>>})
  /\ route = Visit(DASHBOARD_PATHS.LECTURER, USER_ROLES.LECTURER, FALSE)

SpecGuard == InitGuarded /\ [][NextGuard]_vars

\* The route guard put to every pathname and user.
NextRoute == FindMatchingRoute \/ CheckRoutePermission

InitRouted ==
  /\ InitStore({TRUE}) /\ InitHttp /\ InitGuard({useModeratorAuth})
  /\ InitNav({"/a"}) /\ InitInvite({Self}, {{}}, {Undefined}) /\ InitDebounce({<<>>})
  /\ InitRoute(Pathnames)

SpecRoute == InitRouted /\ [][NextRoute]_vars

\* The member picker, creating a group or inviting to an existing one.
NextInvite == HandleAddMember \/ InviteSearch \/ InviteSessionLoaded

InitInviting ==
  /\ InitStore({TRUE}) /\ InitHttp /\ InitGuard({useModeratorAuth})
  /\ InitNav({"/a"}) /\ InitDebounce({<<>>})
  /\ InitInvite({Undefined, Self}, {{}, {2}}, {Undefined, 2, MAX_MEMBERS})
  /\ route = Visit(DASHBOARD_PATHS.LECTURER, USER_ROLES.LECTURER, FALSE)

SpecInvite == InitInviting /\ [][NextInvite]_vars

\* A debounced input.
NextDebounce == DebounceSetValue \/ DebounceTick \/ DebounceFire

InitDebounced ==
  /\ InitStore({TRUE}) /\ InitHttp /\ InitGuard({useModeratorAuth})
  /\ InitNav({"/a"}) /\ InitInvite({Self}, {{}}, {Undefined})
  /\ InitDebounce(DebounceValues)
  /\ route = Visit(DASHBOARD_PATHS.LECTURER, USER_ROLES.LECTURER, FALSE)

SpecDebounce == InitDebounced /\ [][NextDebounce]_vars

\* Time goes on and the event loop runs a timer that is due.
SpecDebounceLive ==
  SpecDebounce /\ WF_vars(DebounceTick) /\ WF_vars(DebounceFire)

\* The navigation loader.
NextNav ==
  \/ StartNavigation \/ PathnameChanges \/ CompleteNavigation
  \/ CheckContent \/ StabilityCheck \/ FallbackTimeout
  \/ NavigationCompletion \/ StaleCompletion \/ SafetyTimeout

InitNavigating ==
  /\ InitStore({TRUE}) /\ InitHttp /\ InitGuard({useModeratorAuth})
  /\ InitNav(Paths) /\ InitInvite({Self}, {{}}, {Undefined}) /\ InitDebounce({<<>>})
  /\ route = Visit(DASHBOARD_PATHS.LECTURER, USER_ROLES.LECTURER, FALSE)

SpecNav == InitNavigating /\ [][NextNav]_vars

\* The safety timeout, once set, fires unless it is cleared.
SpecNavLive == SpecNav /\ WF_vars(SafetyTimeout)

Next == NextStore \/ NextHttp \/ NextGuard \/ NextRoute \/ NextNav \/ NextInvite \/ NextDebounce

Spec == Init /\ [][Next]_vars

\* The same store driven with part of its actions only.
NextMutate ==
  \/ FetchStart \/ FetchSettle
  \/ CreateStart \/ CreateSettle
  \/ CreateManyStart \/ CreateManySettle
  \/ UpdateStart \/ UpdateSettle
  \/ ToggleStatusStart \/ ToggleStatusSettle
  \/ DeleteStart \/ DeleteSettle
  \/ Reset

SpecMutate == InitFiltered /\ [][NextMutate]_vars

NextFetch ==
  \/ FetchStart \/ FetchSettle
  \/ FetchBySemesterSkip \/ FetchBySemesterStart \/ FetchBySemesterSettle
  \/ Reset \/ SetSearchText

SpecFetch == Init /\ [][NextFetch]_vars

\* Every kind of call, each with one choice of its inputs.
NextBusy ==
  \/ FetchStart \/ FetchSettle
  \/ FetchBySemesterSkip \/ FetchBySemesterStartWith({1}, {FALSE})
  \/ FetchBySemesterSettle
  \/ CreateStart \/ CreateSettle
  \/ CreateManyStart \/ CreateManySettle
  \/ UpdateStartWith({1}) \/ UpdateSettle
  \/ ToggleStatusStartWith({1}) \/ ToggleStatusSettle
  \/ DeleteStart \/ DeleteSettle

SpecBusy == InitFiltered /\ [][NextBusy]_vars

\* ---------------------------------------------------------------- claims
\* The call whose promise settles in this step.
Settled(c) == c \in BagToSet(calls) /\ calls' = calls (-) SetToBag({c})

Succeeded(c, kinds) == Settled(c) /\ c.kind \in kinds /\ last'.path = "success"

Failed(c, kinds) ==
  Settled(c) /\ c.kind \in kinds /\ last'.path \in {"error", "thrown"}

Positions(seq, id) == {k \in 1..Len(seq) : seq[k].id = id}

\* C1: after create succeeds with the server-returned record of id i, the
\* collection holds exactly one record with id i, that record is at position
\* 0, and the records held before follow in their previous order.
C1_CreatePrependsUnique ==
  [][\A c \in BagToSet(calls) :
       Succeeded(c, {"create"}) =>
         LET i == c.response.data[1].id
         IN /\ store'.students # <<>>
            /\ store'.students[1] = c.response.data[1]
            /\ Tail(store'.students) = store.students
            /\ Cardinality(Positions(store'.students, i)) = 1]_vars

\* C2: after update or toggle succeeds, every record with the identifier is
\* the server-returned record and sits where it sat, the length is unchanged
\* and every other record is left as it was, where it was.
C2_UpdateInPlace ==
  [][\A c \in BagToSet(calls) :
       Succeeded(c, {"update", "toggleStatus"}) =>
         LET data == c.response.data[1]
         IN /\ Len(store'.students) = Len(store.students)
            /\ Positions(store'.students, c.arg) = Positions(store.students, c.arg)
            /\ \A k \in 1..Len(store.students) :
                 /\ k \in Positions(store.students, c.arg) =>
                      store'.students[k] = data
                 /\ k \notin Positions(store.students, c.arg) =>
                      store'.students[k] = store.students[k]]_vars

C2_Witness ==
  /\ last.op = "toggleStatus"
  /\ last.path = "success"
  /\ last.arg = 2
  /\ store.students = <<Student(1, 1), Student(2, 1)>>

\* C3: after delete succeeds no record with the identifier remains, the
\* length has gone down by exactly one if the identifier was present, and the
\* other records keep their relative order.
C3_DeleteRemovesOne ==
  [][\A c \in BagToSet(calls) :
       Succeeded(c, {"delete"}) =>
         /\ Positions(store'.students, c.arg) = {}
         /\ Positions(store.students, c.arg) # {} =>
              Len(store'.students) = Len(store.students) - 1
         /\ \A k \in 1..Len(store'.students) :
              \E j \in k..Len(store.students) :
                store.students[j] = store'.students[k]]_vars

\* C4: after create-many succeeds with k records, the collection is those k
\* records in the order the server returned them, followed by the records
\* held before in their previous order.
C4_BatchPrepends ==
  [][\A c \in BagToSet(calls) :
       Succeeded(c, {"createMany"}) =>
         LET data == c.response.data
             k == Len(data)
         IN /\ Len(store'.students) = k + Len(store.students)
            /\ \A j \in 1..k : store'.students[j] = data[j]
            /\ \A j \in 1..Len(store.students) :
                 store'.students[k + j] = store.students[j]]_vars

C4_Witness ==
  /\ last.op = "createMany"
  /\ last.path = "success"
  /\ store.students =
       <<Student(3, 0), Student(4, 0), Student(1, 1), Student(2, 0)>>

\* C5: when create, create-many, update, delete or toggle fails, by an error
\* result or by a thrown exception, the collection and the filtered view are
\* left as they were, the error state is set to the failure, and the action
\* returns false (it returns: nothing is thrown out of it).
C5_FailureLeavesCollection ==
  [][\A c \in BagToSet(calls) :
       Failed(c, {"create", "createMany", "update", "delete", "toggleStatus"}) =>
         /\ store'.students = store.students
         /\ store'.filteredStudents = store.filteredStudents
         /\ last'.ret = "false"
         /\ last'.path = "error" =>
              /\ last'.error # NoError
              /\ store'.lastError = last'.error
         /\ last'.path = "thrown" =>
              store'.lastError = [message |-> MsgFailed, statusCode |-> 500]]_vars

C5_Witness ==
  /\ last.op = "delete"
  /\ last.path = "error"
  /\ last.ret = "false"
  /\ store.students = <<Student(3, 0), Student(1, 1), Student(2, 0)>>
  /\ store.lastError = [message |-> MsgConflict, statusCode |-> 409]

\* C6: fetch-all on success replaces the collection with the server result
\* and the filtered view with that result as the store's filter function, if
\* it has one, leaves it; on failure it sets the error state and leaves the
\* collection and the filtered view as they were.
C6_FetchReplaces ==
  [][\A c \in BagToSet(calls) :
       (Settled(c) /\ c.kind = "fetch") =>
         /\ last'.path = "success" =>
              /\ store'.students = c.response.data
              /\ store'.filteredStudents =
                   IF store.hasFilterStudents
                   THEN createSearchFilter(c.response.data, store.searchText)
                   ELSE c.response.data
         /\ last'.path \in {"error", "thrown"} =>
              /\ store'.lastError # NoError
              /\ last'.path = "error" => store'.lastError = last'.error
              /\ store'.students = store.students
              /\ store'.filteredStudents = store.filteredStudents]_vars

C6_Witness ==
  /\ last.op = "fetch"
  /\ last.path = "success"
  /\ store.searchText = <<"N">>
  /\ store.students = <<Student(1, 1), Student(2, 0)>>
  /\ \/ store.hasFilterStudents /\ store.filteredStudents = <<Student(1, 1)>>
     \/ ~store.hasFilterStudents /\ store.filteredStudents = store.students

\* Two calls of fetch-by-parent in succession: the step before was the
\* settling of fetchBySemester(p, force = false), this step is a call of
\* fetchBySemester(p, force = false).
CalledAgain ==
  /\ last.op = "fetchBySemester"
  /\ last.path \notin {"start", "skip"}
  /\ ~last.force
  /\ last'.op = "fetchBySemester"
  /\ last'.path \in {"start", "skip"}
  /\ last'.arg = last.arg
  /\ ~last'.force

C8_FetchBySemesterIssues ==
  [][/\ (last'.op = "fetchBySemester" /\ last'.path = "skip") =>
          (~last'.force /\ last'.arg = store.lastSemesterId)
     /\ (last'.op = "fetchBySemester" /\ last'.path = "start") =>
          /\ issued' = issued + 1
          /\ last'.force \/ last'.arg # store.lastSemesterId
     /\ \A c \in BagToSet(calls) :
          Succeeded(c, {"fetchBySemester"}) =>
            /\ store'.students = c.response.data
            /\ store'.lastSemesterId = c.arg]_vars

C8_Witness ==
  /\ last.op = "fetchBySemester"
  /\ last.path = "start"
  /\ last.force
  /\ store.lastSemesterId = last.arg
  /\ store.students # <<>>

\* The responses fetch-by-parent shows as empty data: a 409 whose message
\* holds NotYet, End or 'semesters allow student enrollment'.
Recognised(error) ==
  /\ error.statusCode = 409
  /\ \E pattern \in {<<"NotYet">>, <<"End">>,
                     <<"semesters", "allow", "student", "enrollment">>} :
       Includes(error.message, pattern)

\* C9: when fetch-by-parent(p) receives a recognised 409, the collection and
\* the filtered view end empty, p is the remembered parent, the loading flag
\* is cleared and no error-state entry is written: the error state is as it
\* was, which is null when no other call overlapped this one.
C9_ConflictShownAsEmpty ==
  [][\A c \in BagToSet(calls) :
       (Settled(c) /\ c.kind = "fetchBySemester" /\ Recognised(last'.error)) =>
         /\ store'.students = <<>>
         /\ store'.filteredStudents = <<>>
         /\ store'.lastSemesterId = c.arg
         /\ ~store'.loading
         /\ store'.lastError = store.lastError
         /\ c.alone => store'.lastError = NoError]_vars

C9_Witness ==
  /\ last.op = "fetchBySemester"
  /\ last.error = [message |-> MsgNotYet, statusCode |-> 409]
  /\ last.alone
  /\ issued = 2
  /\ store.lastSemesterId = last.arg
  /\ store.students = <<>>
  /\ store.lastError = NoError

Busy(kinds) == \E c \in BagToSet(calls) : c.kind \in kinds

\* C10: no action leaves its busy-flag set: once no call of the actions that
\* raise a flag is in flight, however they settled, the flag is false.
C10_NoFlagLeftSet ==
  /\ ~Busy({"fetch", "fetchBySemester"}) => ~store.loading
  /\ ~Busy({"create"}) => ~store.creating
  /\ ~Busy({"createMany"}) => ~store.creatingMany /\ ~store.creatingManyStudents
  /\ ~Busy({"update"}) => ~store.updating
  /\ ~Busy({"delete"}) => ~store.deleting
  /\ ~Busy({"toggleStatus"}) => ~store.togglingStatus

C10_Witness ==
  /\ calls = EmptyBag
  /\ issued = 3
  /\ last.op = "createMany"
  /\ last.path = "thrown"
  /\ store.lastError # NoError

\* C11: a busy-flag indicates an in-flight operation: while at least one call
\* of a kind has started and not completed its flag is true, also when two
\* calls of the same kind overlap.
C11_FlagWhileInFlight ==
  /\ Busy({"fetch", "fetchBySemester"}) => store.loading
  /\ Busy({"create"}) => store.creating
  /\ Busy({"createMany"}) => store.creatingMany /\ store.creatingManyStudents
  /\ Busy({"update"}) => store.updating
  /\ Busy({"delete"}) => store.deleting
  /\ Busy({"toggleStatus"}) => store.togglingStatus

\* C12: after every successful fetch, create, create-many, update, delete or
\* toggle the filtered view is the current search applied to the collection:
\* it holds no record the collection lacks and is not left stale.
C12_FilteredFollows ==
  [][\A c \in BagToSet(calls) :
       Succeeded(c, {"fetch", "create", "createMany", "update", "delete",
                     "toggleStatus"}) =>
         store'.filteredStudents =
           createSearchFilter(store'.students, store'.searchText)]_vars

\* C13: in every reachable state of a store no two records of the collection
\* share an identifier.
C13_UniqueIds ==
  \A j, k \in 1..Len(store.students) :
    store.students[j].id = store.students[k].id => j = k

AwaitsRefresh(r) == requests[r].stage = "sent" /\ requests'[r].stage = "refresh"

\* The answer to request r has been propagated to the caller as a failure.
Propagated(r) ==
  /\ requests[r].stage = "sent"
  /\ requests'[r].stage = "done"
  /\ requests'[r].result = "rejected"

\* C15: a request that receives 401 is retried at most once: a refresh (and
\* with it a replay) is triggered only for a 401 on a request that is not yet
\* marked retried and does not go to a login/refresh endpoint; a request that
\* is marked or goes to such an endpoint has its failure, a second 401
\* included, propagated to the caller; no request goes to the network more
\* than twice.
C15_RetryAtMostOnce ==
  [][\A r \in 1..Len(requests) :
       /\ requests'[r].sends <= 2
       /\ AwaitsRefresh(r) =>
            /\ ~requests[r]._retry
            /\ requests'[r]._retry
            /\ ~isAuthEndpoint(requests[r].url)
            /\ requests'[r].error = 401
            /\ requests[r].sends = 1
       /\ (requests[r].stage = "sent" /\ requests'[r].stage # "sent"
           /\ (requests[r]._retry \/ isAuthEndpoint(requests[r].url))) =>
            /\ requests'[r].stage = "done"
            /\ refresh' = refresh
       /\ Propagated(r) => requests'[r].status # 200]_vars

C15_Witness ==
  \E r \in 1..Len(requests) :
    /\ requests[r]._retry
    /\ requests[r].sends = 2
    /\ requests[r].result = "rejected"
    /\ requests[r].status = 401
    /\ refresh.calls = 1

\* Requests q and r were pending at the same time and were made under the
\* same credential: no refresh call was made between the two.
Concurrent(q, r) ==
  /\ q # r
  /\ requests[q].epoch = requests[r].epoch
  /\ IF q < r THEN requests[r].together ELSE requests[q].together

Refreshed(r) ==
  /\ requests[r].stage = "refresh"
  /\ requests'[r].stage # "refresh"
  /\ tokens'.access # NoToken

\* C17: when the 401 of a request to a non-authentication endpoint is followed
\* by a successful refresh, the request is reissued once, carrying the newly
\* refreshed credential in its Authorization header, and the caller gets the
\* result of the reissued request in place of the original failure.
C17_ReplayedWithNewCredential ==
  [][\A r \in 1..Len(requests) :
       /\ Refreshed(r) =>
            /\ ~isAuthEndpoint(requests[r].url)
            /\ requests[r].sends = 1
            /\ requests'[r].sends = 2
            /\ requests'[r].stage = "sent"
            /\ requests'[r].result = "pending"
            /\ tokens'.access # tokens.access
            /\ requests'[r].Authorization = tokens'.access
            /\ requests'[r].Authorization # requests[r].Authorization
       /\ (requests[r].stage = "sent" /\ requests[r]._retry
           /\ requests'[r] # requests[r]) =>
            /\ requests'[r].stage = "done"
            /\ requests'[r].sends = 2
            /\ requests'[r].result = "resolved" <=> requests'[r].status = 200
            /\ requests'[r].result = "rejected" <=> requests'[r].status # 200]_vars

C17_Witness ==
  \E r \in 1..Len(requests) :
    /\ requests[r].error = 401
    /\ requests[r]._retry
    /\ requests[r].sends = 2
    /\ requests[r].Authorization = 2
    /\ requests[r].result = "resolved"
    /\ requests[r].status = 200

\* The refresh that request r awaited after its 401 has failed.
RefreshFailedFor(r) ==
  /\ requests[r].stage = "refresh"
  /\ requests'[r].stage # "refresh"
  /\ refresh'.failed = refresh.failed + 1

\* C18: when the refresh triggered by a 401 fails, all stored credentials are
\* cleared, the session is sent to the login page, the original request is
\* not reissued and its original failure is propagated to the caller.
C18_FailedRefreshEndsSession ==
  [][\A r \in 1..Len(requests) :
       RefreshFailedFor(r) =>
         /\ tokens' = clearTokens
         /\ session'.location = <<"login">>
         /\ requests'[r].stage = "done"
         /\ requests'[r].sends = requests[r].sends
         /\ requests'[r].sends = 1
         /\ requests'[r].result = "rejected"
         /\ requests'[r].status = requests[r].error
         /\ requests'[r].status = 401]_vars

C18_Witness ==
  /\ tokens = clearTokens
  /\ session.location = <<"login">>
  /\ refresh.failed = 1
  /\ \E r \in 1..Len(requests) :
       /\ requests[r]._retry
       /\ requests[r].sends = 1
       /\ requests[r].result = "rejected"
       /\ requests[r].status = 401

LeavesHook(r) ==
  /\ r <= Len(requests')
  /\ requests'[r].stage # "token"
  /\ r <= Len(requests) => requests[r].stage = "token"

\* C20: the request interceptor passes a request to a login or refresh
\* endpoint on with no Authorization header and without a call to the token
\* manager; any other request gets the access token as its Authorization
\* header when one was obtained, and is sent without one, never rejected,
\* when none was obtained.
C20_RequestHook ==
  [][\A r \in 1..Len(requests') :
       LeavesHook(r) =>
         /\ requests'[r].stage = "sent"
         /\ requests'[r].result = "pending"
         /\ requests'[r].sends = 1
         /\ IF \E endpoint \in AuthEndpoints : Includes(requests'[r].url, endpoint)
            THEN /\ requests'[r].hook = "skipped"
                 /\ requests'[r].Authorization = NoToken
                 /\ refresh' = refresh
            ELSE /\ requests'[r].hook \in {"attached", "bare"}
                 /\ requests'[r].hook = "attached" <=>
                      requests'[r].Authorization # NoToken
                 /\ requests'[r].Authorization \in {NoToken, tokens'.access}
                 /\ (r <= Len(requests) /\ refresh'.failed = refresh.failed) =>
                      requests'[r].Authorization = tokens'.access
                 /\ (r <= Len(requests) /\ refresh'.failed # refresh.failed) =>
                      requests'[r].Authorization = NoToken]_vars

C20_Witness ==
  /\ Len(requests) = 2
  /\ isAuthEndpoint(requests[1].url)
  /\ requests[1].hook = "skipped"
  /\ requests[1].Authorization = NoToken
  /\ requests[1].stage = "sent"
  /\ tokens.expired
  /\ refresh.calls = 1
  /\ ~isAuthEndpoint(requests[2].url)
  /\ requests[2].hook = "bare"
  /\ requests[2].Authorization = NoToken
  /\ requests[2].stage = "sent"
  /\ refresh.failed = 1

\* The credential pair as stored: the access and the refresh token.
Stored(tok) == <<tok.access, tok.refresh>>

\* C21: the stored credential pair is set or cleared only by the HTTP
\* client's refresh/401 logic and the login flow; the auth guard hook only
\* reads it, so no step of the hook changes the stored pair.
C21_GuardOnlyReads ==
  [][guard' # guard => Stored(tokens') = Stored(tokens)]_vars

\* C22 as stated: a genuine failure of fetch-by-parent(q) sets the error
\* state and leaves the collection, the filtered view and the remembered
\* parent unchanged, so fetch-by-parent(q, force=false) would issue a network
\* call again.
C22_FailureNeverCached ==
  [][\A c \in BagToSet(calls) :
       Failed(c, {"fetchBySemester"}) =>
         /\ store'.lastError # NoError
         /\ store'.students = store.students
         /\ store'.filteredStudents = store.filteredStudents
         /\ store'.lastSemesterId = store.lastSemesterId
         /\ ~IsCached(store', c.arg, FALSE)]_vars

\* C22: a genuine failure of fetch-by-parent(q) sets the error state and
\* leaves the collection, the filtered view and the remembered parent
\* unchanged, so fetch-by-parent(q, force=false) would issue a network call
\* again exactly when q was not the remembered parent before the failure.
C22_FailureLeavesCache ==
  [][\A c \in BagToSet(calls) :
       Failed(c, {"fetchBySemester"}) =>
         /\ store'.lastError # NoError
         /\ store'.students = store.students
         /\ store'.filteredStudents = store.filteredStudents
         /\ store'.lastSemesterId = store.lastSemesterId
         /\ IsCached(store', c.arg, FALSE) <=> store.lastSemesterId = c.arg]_vars

C22_Witness ==
  /\ last.op = "fetchBySemester"
  /\ last.path \in {"error", "thrown"}
  /\ store.lastError # NoError
  /\ store.students # <<>>
  /\ store.lastSemesterId \notin {NoSemester, last.arg}
  /\ ~IsCached(store, last.arg, FALSE)

Mutations == {"create", "createMany", "update", "toggleStatus", "delete"}

\* The identifiers a mutation is about.
Touched(c) ==
  IF c.kind \in {"create", "createMany"}
  THEN {c.response.data[k].id : k \in 1..Len(c.response.data)}
  ELSE {c.arg}

\* C23: when a mutation that overlapped with another call succeeds, its patch
\* is applied to the collection as it is at that moment: the records with
\* other identifiers, those patched by a mutation that completed earlier
\* included, are kept as they are and in their order, and the mutation's own
\* records are added, replaced or removed; so of two overlapping successful
\* mutations on distinct identifiers neither is lost, whichever completes last.
C23_NoLostUpdate ==
  [][\A c \in BagToSet(calls) :
       (Succeeded(c, Mutations) /\ ~c.alone) =>
         LET Untouched(item) == item.id \notin Touched(c)
             Mine(item) == item.id \in Touched(c)
         IN /\ SelectSeq(store'.students, Untouched)
                 = SelectSeq(store.students, Untouched)
            /\ c.kind \in {"create", "createMany"} =>
                 SelectSeq(store'.students, Mine)
                   = c.response.data \o SelectSeq(store.students, Mine)
            /\ c.kind \in {"update", "toggleStatus"} =>
                 /\ Positions(store'.students, c.arg)
                      = Positions(store.students, c.arg)
                 /\ \A k \in Positions(store'.students, c.arg) :
                      store'.students[k] = c.response.data[1]
            /\ c.kind = "delete" => Positions(store'.students, c.arg) = {}]_vars

\* An update and a delete of different records overlapped and both succeeded:
\* the collection is the backend's.
C23_Witness ==
  /\ last.op \in {"update", "toggleStatus", "delete"}
  /\ last.path = "success"
  /\ ~last.alone
  /\ issued = 3
  /\ calls = EmptyBag
  /\ store.students = db
  /\ Len(db) = 1
  /\ \A k \in 1..Len(InitialDb) : InitialDb[k] # db[1]

\* reset() is called.
ResetCalled ==
  /\ store' = Set(store, createReset)
  /\ store' # store
  /\ last' = NoEvent
  /\ UNCHANGED <<calls, issued>>

\* C24: whenever fetch-by-parent(p, force=false) skips the network call, the
\* collection held is what the last successful fetch for p gave: every record
\* held belongs to p, and after a reset or after a fetch-all has replaced the
\* collection no parent is remembered, so that fetch-by-parent for the parent
\* remembered before issues a network call.
C24_SkipOnlyWithParentData ==
  [][/\ (last'.op = "fetchBySemester" /\ last'.path = "skip") =>
          \A k \in 1..Len(store.students) :
            InSemester(store.students[k], last'.arg)
     /\ (ResetCalled /\ store.lastSemesterId # NoSemester) =>
          ~IsCached(store', store.lastSemesterId, FALSE)
     /\ \A c \in BagToSet(calls) :
          (Succeeded(c, {"fetch"}) /\ store.lastSemesterId # NoSemester) =>
            ~IsCached(store', store.lastSemesterId, FALSE)]_vars

\* What reset() leaves: nothing held, no flag set, no error, no search text.
InResetState(s) == Set(s, createReset) = s

\* C25: after reset the collection and the filtered view are empty, every
\* busy-flag is false, the error state is null and the search text is empty,
\* and they stay so until an operation is started after the reset: no step
\* that starts no operation, the completion of an operation in flight
\* included, changes them.
C25_ResetStays ==
  [][/\ ResetCalled => InResetState(store')
     /\ (InResetState(store) /\ last = NoEvent /\ issued' = issued) =>
          InResetState(store')]_vars

\* C26: for every pathname under a moderator-only route findMatchingRoute
\* returns a route config with requiresModerator = true, so that
\* checkRoutePermission denies a lecturer without the moderator flag there.
C26_ModeratorRoutesGuarded ==
  (\E path \in ModeratorPaths : startsWith(route.pathname, path)) =>
    /\ route.stage # "visit" =>
         (route.found # NoRoute /\ route.found.requiresModerator)
    /\ (/\ route.stage = "checked"
        /\ route.userRole = USER_ROLES.LECTURER
        /\ ~route.isModerator) => ~route.hasAccess

\* Both effects have run for the session the hook holds, the token check to
\* its end.
EffectsRun == guard.effects = {} /\ ~guard.checking

StartNavigationCalled == nav' # nav /\ nav'.last.op = "startNavigation"

\* C28: every navigation started with startNavigation completes: while
\* isNavigating is true the safety timeout is pending and its firing makes
\* isNavigating false, wherever the pathname is; the content check makes at
\* most maxAttempts attempts; completeNavigation twice is completeNavigation
\* once; isNavigating is true exactly when targetPath is non-null; and
\* startNavigation changes nothing while a navigation is in progress or when
\* the target is the current pathname.
C28_NavigationCompletes ==
  /\ [](/\ nav.isNavigating <=> nav.targetPath # NoPath
        /\ nav.isNavigating => nav.timeoutRef
        /\ nav.run.attempts <= maxAttempts
        /\ completeNavigation(completeNavigation(nav)) = completeNavigation(nav))
  /\ [][/\ nav'.last.op = "safetyTimeout" => ~nav'.isNavigating
        /\ StartNavigationCalled =>
             IF nav.isNavigating \/ nav'.last.arg = nav.pathname
             THEN [nav' EXCEPT !.last = nav.last] = nav
             ELSE nav'.isNavigating /\ nav'.targetPath = nav'.last.arg]_vars
  /\ (nav.isNavigating ~> ~nav.isNavigating)

\* A navigation whose target was never reached has been ended by the safety
\* timeout.
C28_Witness ==
  /\ nav.last.op = "safetyTimeout"
  /\ nav.last.arg \notin {NoPath, nav.pathname}
  /\ ~nav.isNavigating
  /\ nav.completedRef
  /\ nav.run = NoRun
  /\ nav.stale = 0

\* The members a group would have with those selected: the existing ones
\* when inviting to a group, the leader when creating one.
TotalMembers ==
  IF invite.currentMemberCount # Undefined
  THEN invite.currentMemberCount + Len(invite.members)
  ELSE Len(invite.members) + 1

\* C29: after any sequence of handleAddMember calls the selected members hold
\* no id twice, never the current user nor an excluded id, and the total with
\* them stays at or below MAX_MEMBERS.
C29_MembersValid ==
  /\ \A j, k \in 1..Len(invite.members) :
       invite.members[j] = invite.members[k] => j = k
  /\ \A k \in 1..Len(invite.members) :
       /\ invite.members[k] # Self
       /\ invite.members[k] \notin invite.excludeUserIds
  /\ TotalMembers <= MAX_MEMBERS

\* The debounced value is set by this step.
Emits == debounce'.last = "fire" /\ debounce' # debounce

\* C30: useDebounce emits a value only after it stayed unchanged for the full
\* delay (a value replaced earlier is never emitted), at most one timer is
\* pending, and once the input stops changing the debounced value eventually
\* equals the latest input.
C30_Debounced ==
  /\ [](Cardinality(debounce.timers) <= 1)
  /\ [][Emits => /\ debounce.age = Delay
                 /\ debounce'.debouncedValue = debounce.value]_vars
  /\ \A value \in DebounceValues :
       <>[](debounce.value = value) => <>[](debounce.debouncedValue = value)

\* A value typed was replaced before its delay elapsed, and the one that
\* replaced it has been emitted.
C30_Witness ==
  /\ debounce.changes >= 2
  /\ debounce.replacedAge \in 1..(Delay - 1)
  /\ debounce.last = "fire"
  /\ debounce.debouncedValue = debounce.value
  /\ debounce.timers = {}

====
